---- MODULE Spec2Model ----
(***************************************************************************)
(* Model of the sudoku solver: the Board type and its queries (board.rs),  *)
(* the recursive backtracking solve (board.rs), the csv loader (io.rs) and *)
(* the callers (main.rs, the tests).                                       *)
(*                                                                         *)
(* Option<T> is modelled as a sequence of length at most one: None is the  *)
(* empty sequence, Some(v) is <<v>>.  The board is [[Option<u8>; 9]; 9],   *)
(* indexed from 0 as in the source.  The recursion of solve is an explicit *)
(* stack of frames, one per call that is past its completeness check.      *)
(***************************************************************************)
EXTENDS Integers, Sequences, FiniteSets

\* ------------------------------------------------------------------------
\* Bounds of the model (not program constants)
\* ------------------------------------------------------------------------
MaxEmpty == 4      \* most cells blanked in a generated input grid
MaxRows == 10      \* most records in a generated csv file

\* ------------------------------------------------------------------------
\* Program constants
\* ------------------------------------------------------------------------
N == 9             \* side of the board
BoxSize == 3       \* side of a subgrid
Tolerance == 3     \* is_valid_entry: more than this many occurrences fail
U8Max == 255       \* largest value parse::<u8> accepts

Rng == 0 .. (N - 1)
Digits == 1 .. N
Cells == Rng \X Rng

None == << >>
Some(v) == << v >>

\* ------------------------------------------------------------------------
\* Board (board.rs)
\* ------------------------------------------------------------------------
new(raw) ==
  [i \in Rng |-> [j \in Rng |-> IF raw[i][j] = 0 THEN None ELSE Some(raw[i][j])]]

get_cell(b, index) == b[index[1]][index[2]]

update_cell_transposed(b, index, value) ==
  [b EXCEPT ![index[2]][index[1]] = IF value = 0 THEN None ELSE Some(value)]

update_cell(b, index, value) ==
  [b EXCEPT ![index[1]][index[2]] = IF value = 0 THEN None ELSE Some(value)]

get_row(b, row) == [k \in 1 .. N |-> b[row][k - 1]]

get_column(b, column) == [k \in 1 .. N |-> b[k - 1][column]]

get_subgrid(b, index) ==
  LET g0 == index[1] \div BoxSize
      g1 == index[2] \div BoxSize
  IN  [k \in 1 .. N |->
         get_cell(b, << g0 * BoxSize + ((k - 1) \div BoxSize),
                        g1 * BoxSize + ((k - 1) % BoxSize) >>)]

\* possible_entries[i] is the mask bit of digit i + 1
valid_entries(b, index) ==
  LET row == get_row(b, index[1])
      col == get_column(b, index[2])
      sub == get_subgrid(b, index)
  IN  [i \in Rng |->
         /\ \A k \in 1 .. N : row[k] # Some(i + 1)
         /\ \A k \in 1 .. N : col[k] # Some(i + 1)
         /\ \A k \in 1 .. N : sub[k] # Some(i + 1)]

\* number of elements of seq equal to x: iter().filter(|e| e == x).count()
\* (s ranges over the one value of seq, so that seq is evaluated once)
Count(seq, x) == Cardinality(UNION { {k \in DOMAIN s : s[k] = x} : s \in {seq} })

is_valid_entry_loose(b, index) ==
  LET element == get_cell(b, index)
  IN  IF element = None THEN TRUE
      ELSE ~ (Count(get_row(b, index[1]) \o get_column(b, index[2])
                      \o get_subgrid(b, index), element) > Tolerance + 1)

is_valid_entry_strict(b, index) ==
  LET element == get_cell(b, index)
  IN  IF element = None THEN TRUE
      ELSE ~ (Count(get_row(b, index[1]) \o get_column(b, index[2])
                      \o get_subgrid(b, index), element) >= Tolerance)

is_valid_entry(b, index) ==
  LET element == get_cell(b, index)
  IN  IF element = None THEN TRUE
      ELSE ~ (Count(get_row(b, index[1]) \o get_column(b, index[2])
                      \o get_subgrid(b, index), element) > Tolerance)

is_valid_board(b) == \A i \in Rng : \A j \in Rng : is_valid_entry(b, << i, j >>)

\* Option<Index>: the first empty cell in row-major order
next_empty(b) ==
  LET empties == {c \in Cells : b[c[1]][c[2]] = None}
  IN  IF empties = {} THEN None
      ELSE Some(CHOOSE c \in empties :
                  \A e \in empties : c[1] * N + c[2] <= e[1] * N + e[2])

is_complete(b) == is_valid_board(b) /\ next_empty(b) = None

\* ------------------------------------------------------------------------
\* Inputs: grids handed to Board::new by a caller
\* ------------------------------------------------------------------------
\* tests::make_solved_board
SolvedRows ==
  << << 5, 2, 3, 4, 8, 7, 9, 6, 1 >>,
     << 7, 1, 9, 5, 6, 2, 8, 4, 3 >>,
     << 8, 4, 6, 9, 1, 3, 2, 5, 7 >>,
     << 4, 8, 2, 3, 5, 9, 1, 7, 6 >>,
     << 9, 5, 1, 7, 4, 6, 3, 8, 2 >>,
     << 3, 6, 7, 8, 2, 1, 5, 9, 4 >>,
     << 2, 9, 4, 1, 7, 5, 6, 3, 8 >>,
     << 1, 3, 8, 6, 9, 4, 7, 2, 5 >>,
     << 6, 7, 5, 2, 3, 8, 4, 1, 9 >> >>

\* the grid of tests/test_board_pass.csv, as tests::test_from_csv states it
PassRows ==
  << << 0, 7, 3, 8, 0, 4, 2, 1, 6 >>,
     << 0, 0, 0, 2, 0, 9, 5, 0, 0 >>,
     << 2, 8, 5, 6, 0, 3, 0, 9, 7 >>,
     << 0, 0, 0, 3, 0, 0, 0, 7, 4 >>,
     << 7, 5, 0, 0, 0, 0, 3, 0, 1 >>,
     << 0, 0, 4, 0, 2, 0, 0, 0, 0 >>,
     << 0, 9, 7, 5, 6, 0, 0, 0, 0 >>,
     << 0, 0, 0, 7, 0, 0, 1, 0, 0 >>,
     << 4, 2, 0, 0, 3, 0, 0, 6, 0 >> >>

\* tests::make_board
PuzzleRows ==
  << << 0, 0, 3, 4, 0, 7, 0, 6, 0 >>,
     << 7, 0, 0, 0, 0, 0, 0, 4, 0 >>,
     << 0, 0, 0, 0, 1, 0, 2, 5, 0 >>,
     << 4, 8, 0, 3, 0, 0, 1, 0, 0 >>,
     << 0, 5, 0, 0, 0, 0, 0, 0, 2 >>,
     << 0, 6, 0, 0, 2, 0, 0, 0, 0 >>,
     << 0, 9, 0, 1, 0, 5, 0, 0, 8 >>,
     << 1, 0, 0, 6, 0, 0, 0, 0, 5 >>,
     << 0, 0, 0, 0, 0, 0, 4, 0, 0 >> >>

\* Cells a generated grid may leave empty.  <<4,4>>, <<4,8>>, <<5,4>>, <<5,8>>
\* hold 4,2 / 2,4 in the solved grid: emptied together they leave two
\* completions.
BlankPool == { << 4, 4 >>, << 4, 8 >>, << 5, 4 >>, << 5, 8 >>, << 0, 0 >>, << 4, 1 >> }

\* Cells a generated grid may overwrite, each with the digit put there: a
\* second 5 in row 0, column 1 and box 0; a second 9 in the same places; a
\* second 2 in row 5, column 8 and box 5
Overwrites == { << << 0, 1 >>, 5 >>, << << 0, 1 >>, 9 >>, << << 5, 8 >>, 2 >> }

RawWith(rows, blanks, over) ==
  [i \in Rng |-> [j \in Rng |->
     IF << i, j >> \in blanks THEN 0
     ELSE IF \E o \in over : o[1] = << i, j >>
          THEN (CHOOSE o \in over : o[1] = << i, j >>)[2]
          ELSE rows[i + 1][j + 1]]]

\* the solved grid with up to MaxEmpty cells of the pool emptied and at most
\* one cell overwritten, and the puzzle of the unit tests
InputGrids ==
  { RawWith(SolvedRows, blanks, over) :
      blanks \in {e \in SUBSET BlankPool : Cardinality(e) <= MaxEmpty},
      over \in {{}} \cup {{o} : o \in Overwrites} }
    \cup { RawWith(PuzzleRows, {}, {}) }

\* Grids a caller hands to is_valid_board alone: digit 1 at the anchor and
\* digit d at one or two further cells, so that every position of one or two
\* equal digits against the anchor occurs, and every position of one other
\* digit
Anchor == << 4, 4 >>

SparseGrid(c, e, d) ==
  [i \in Rng |-> [j \in Rng |->
     IF << i, j >> = Anchor THEN 1
     ELSE IF << i, j >> \in {c, e} THEN d
     ELSE 0]]

SparseGrids ==
  { SparseGrid(c, e, 1) : c \in Cells \ {Anchor}, e \in Cells \ {Anchor} }
    \cup { SparseGrid(c, c, 2) : c \in Cells \ {Anchor} }

\* ------------------------------------------------------------------------
\* Loader (io.rs).  A field is its text, a sequence of characters; a record
\* is what reader.records() yields: Ok(fields) or Err.
\* ------------------------------------------------------------------------
DimsMsg == "Invalid csv file. Only 9x9 boards allowed"
IntMsg == "Invalid csv file. Only int numbers allowed"
RangeMsg == "Invalid csv file. Only numbers between 0 and 9 allowed"
UnreadableMsg == "Unreadable csv"
RulesMsg == "Invalid Board: Board does not satisfy sudoku rules"

DigitChars == << "0", "1", "2", "3", "4", "5", "6", "7", "8", "9" >>

IsDigitChar(ch) == \E d \in 1 .. Len(DigitChars) : DigitChars[d] = ch
DigitOf(ch) == (CHOOSE d \in 1 .. Len(DigitChars) : DigitChars[d] = ch) - 1

IsSpace(ch) == ch \in {" ", "\t"}

RECURSIVE trim_start(_)
trim_start(t) ==
  IF t # << >> /\ IsSpace(Head(t)) THEN trim_start(Tail(t)) ELSE t

RECURSIVE trim_end(_)
trim_end(t) ==
  IF t # << >> /\ IsSpace(t[Len(t)]) THEN trim_end(SubSeq(t, 1, Len(t) - 1)) ELSE t

\* str::trim
trim(t) == trim_end(trim_start(t))

\* the value of a run of decimal digits, or U8Max + 1 once it overflows u8
RECURSIVE DecimalValue(_)
DecimalValue(ds) ==
  IF ds = << >> THEN 0
  ELSE LET hi == DecimalValue(SubSeq(ds, 1, Len(ds) - 1))
           v == hi * 10 + DigitOf(ds[Len(ds)])
       IN  IF hi > U8Max \/ v > U8Max THEN U8Max + 1 ELSE v

\* str::parse::<u8>: an optional "+", then one or more digits, at most 255
parse_u8(t) ==
  LET ds == IF t # << >> /\ Head(t) = "+" THEN Tail(t) ELSE t
  IN  IF ds = << >> \/ \E k \in 1 .. Len(ds) : ~ IsDigitChar(ds[k])
      THEN [ok |-> FALSE, value |-> 0]
      ELSE IF DecimalValue(ds) > U8Max
           THEN [ok |-> FALSE, value |-> 0]
           ELSE [ok |-> TRUE, value |-> DecimalValue(ds)]

\* from_csv, lines 21-28: what the field yields, before it is stored
FieldOutcome(cell) ==
  LET parsed == parse_u8(trim(cell))
  IN  IF ~ parsed.ok THEN IntMsg
      ELSE IF parsed.value > N THEN RangeMsg
      ELSE "ok"

\* from_csv, lines 21-31: the loop over the fields of record i, from field j
\* on.  board[i][j] = input_value indexes a [[u8; 9]; 9]: with i >= 9 the
\* store panics (index out of bounds).  On an error the raw grid is dropped
\* with the call, so it is left as it was.
RECURSIVE read_fields(_, _, _, _)
read_fields(grid, i, fields, j) ==
  IF j > N THEN [kind |-> "ok", msg |-> "", grid |-> grid]
  ELSE IF FieldOutcome(fields[j]) # "ok"
       THEN [kind |-> "err", msg |-> FieldOutcome(fields[j]), grid |-> grid]
       ELSE IF i >= N
            THEN [kind |-> "panic", msg |-> "index out of bounds", grid |-> grid]
            ELSE read_fields([grid EXCEPT ![i][j - 1] = parse_u8(trim(fields[j])).value],
                             i, fields, j + 1)

\* from_csv, lines 15-33: one iteration of the loop over the records
read_record(grid, i, rec) ==
  IF ~ rec.ok THEN [kind |-> "err", msg |-> UnreadableMsg, grid |-> grid]
  ELSE IF Len(rec.fields) # N THEN [kind |-> "err", msg |-> DimsMsg, grid |-> grid]
  ELSE read_fields(grid, i, rec.fields, 1)

\* ------------------------------------------------------------------------
\* Inputs: csv files, as the records the reader yields for them
\* ------------------------------------------------------------------------
Widths == {N - 1, N, N + 1}

BaseRows == {SolvedRows, PassRows}

\* texts put in place of one field: not a number, out of range, too large
\* for u8, padded with blanks, signed
OddFields ==
  { << "x" >>, << "1", "2" >>, << "3", "0", "0" >>, << " ", "7", " " >>, << "+", "7" >> }

FieldText(v) == << DigitChars[v + 1] >>

\* n records of w fields each, taken from rows (cyclically past the ninth);
\* a field past the ninth is "0"
PlainRecords(rows, n, w) ==
  [k \in 1 .. n |->
     [ok |-> TRUE,
      fields |-> [j \in 1 .. w |->
                    IF j <= N THEN FieldText(rows[((k - 1) % N) + 1][j]) ELSE << "0" >>]]]

\* f with the first field of record k replaced by text t
WithField(f, k, t) == [f EXCEPT ![k].fields[1] = t]

\* f with record k unreadable
WithUnreadable(f, k) == [f EXCEPT ![k] = [ok |-> FALSE, fields |-> << >>]]

Files ==
  LET plain == { PlainRecords(rows, n, w) : rows \in BaseRows, n \in 0 .. MaxRows, w \in Widths }
      ends(f) == {1, Len(f)} \cap DOMAIN f
  IN  plain
        \cup UNION { { WithField(f, k, t) : k \in ends(f), t \in OddFields } : f \in plain }
        \cup UNION { { WithUnreadable(f, k) : k \in ends(f) } : f \in plain }

\* ------------------------------------------------------------------------
\* State
\* ------------------------------------------------------------------------
VARIABLES
  pc,          \* where the program is
  board,       \* the Board the caller owns and solve mutates
  stack,       \* frames of the solve calls in their loop, outermost first
  ret,         \* Option<Board> returned by the solve call that ended last
  retEntry,    \* the board as it was when that call was entered
  input,       \* the board as it was when the outermost solve was entered
  writes,      \* which update_cell calls the current outermost solve has made
  run,         \* number of solve invocations the caller has made
  prevIn,      \* input of the previous invocation
  prevOut,     \* result of the previous invocation
  validity,    \* what is_valid_board returned to a caller that asked: a
               \* sequence holding the boolean, empty before the call
  ld           \* from_csv: the records, the position in them, line_count, the
               \* raw grid, the result, and whether Board::new has run

vars ==
  << pc, board, stack, ret, retEntry, input, writes, run, prevIn, prevOut, validity, ld >>

NoWrites == [placed |-> FALSE, reset |-> FALSE]

EmptyBoard == [i \in Rng |-> [j \in Rng |-> None]]
ZeroGrid == [i \in Rng |-> [j \in Rng |-> 0]]

NoLoad == [opened |-> FALSE, records |-> << >>, i |-> 0, line_count |-> 0,
           grid |-> ZeroGrid, result |-> "none", constructed |-> FALSE]

Init ==
  /\ pc = "start"
  /\ board = EmptyBoard
  /\ stack = << >>
  /\ ret = None
  /\ retEntry = EmptyBoard
  /\ input = EmptyBoard
  /\ writes = NoWrites
  /\ run = 0
  /\ prevIn = EmptyBoard
  /\ prevOut = None
  /\ validity = << >>
  /\ ld = NoLoad

Top == stack[Len(stack)]
Pop == SubSeq(stack, 1, Len(stack) - 1)

\* where control goes when a solve call returns: to its caller's `if let`
\* (board.rs:195) or, for the outermost call, back to the caller of solve
AfterReturn(st) == IF st = << >> THEN "done" ELSE "returned"

\* a caller builds a Board with Board::new and calls solve on it
CallNew ==
  /\ pc = "start"
  /\ \E raw \in InputGrids :
       /\ board' = new(raw)
       /\ input' = new(raw)
  /\ pc' = "entry"
  /\ run' = 1
  /\ writes' = NoWrites
  /\ UNCHANGED << validity, stack, ret, retEntry, prevIn, prevOut, ld >>

\* a caller builds a Board and asks is_valid_board (tests::test_valid_board)
CallIsValidBoard ==
  /\ pc = "start"
  /\ \E raw \in SparseGrids :
       /\ board' = new(raw)
       /\ validity' = << is_valid_board(new(raw)) >>
  /\ pc' = "asked"
  /\ UNCHANGED << stack, ret, retEntry, input, writes, run, prevIn, prevOut, ld >>

\* solve, lines 179-181: the board is complete, return a clone of it
SolveComplete ==
  /\ pc = "entry"
  /\ is_complete(board)
  /\ ret' = Some(board)
  /\ retEntry' = board
  /\ pc' = AfterReturn(stack)
  /\ UNCHANGED << validity, board, stack, input, writes, run, prevIn, prevOut, ld >>

\* solve, lines 183-185: not complete and no empty cell: panic
SolvePanic ==
  /\ pc = "entry"
  /\ ~ is_complete(board)
  /\ next_empty(board) = None
  /\ pc' = "panic"
  /\ UNCHANGED << validity, board, stack, ret, retEntry, input, writes, run, prevIn, prevOut, ld >>

\* solve, lines 183-189: take the first empty cell and its candidate mask
SolveBranch ==
  /\ pc = "entry"
  /\ ~ is_complete(board)
  /\ next_empty(board) # None
  /\ stack' = Append(stack,
                [next_empty |-> next_empty(board)[1],
                 possible_entries |-> valid_entries(board, next_empty(board)[1]),
                 i |-> 0,
                 entry |-> board])
  /\ pc' = "loop"
  /\ UNCHANGED << validity, board, ret, retEntry, input, writes, run, prevIn, prevOut, ld >>

LoopIndexReversed(k) == N - 1 - k

\* solve, line 189: possible_entries.iter().enumerate() visits the mask in
\* index order: the k-th iteration is at index k
LoopIndex(k) == k

TrialValueOffByOne(i) == i

\* solve, line 193: the digit tried at mask index i
TrialValue(i) == i + 1

\* solve, lines 189-192: iterations whose mask bit is false `continue` and
\* change nothing: the first iteration at or after k whose bit is true, or N
\* when the loop runs out
NextTrial(frame) ==
  LET open == {k \in frame.i .. (N - 1) : frame.possible_entries[LoopIndex(k)]}
  IN  IF open = {} THEN N ELSE CHOOSE k \in open : \A m \in open : k <= m

\* solve, lines 189-198: skip to the next digit the mask allows and place it;
\* if the entry is valid recurse, else go on with the loop
LoopTrial ==
  /\ pc = "loop"
  /\ NextTrial(Top) < N
  /\ LET k == NextTrial(Top)
         placed == update_cell(board, Top.next_empty, TrialValue(LoopIndex(k)))
     IN  /\ board' = placed
         /\ IF is_valid_entry(placed, Top.next_empty)
            THEN pc' = "entry" /\ stack' = [stack EXCEPT ![Len(stack)].i = k]
            ELSE pc' = "loop" /\ stack' = [stack EXCEPT ![Len(stack)].i = k + 1]
  /\ writes' = [writes EXCEPT !.placed = TRUE]
  /\ UNCHANGED << validity, ret, retEntry, input, run, prevIn, prevOut, ld >>

\* solve, lines 195-197: the nested call found a solution, return it
PropagateSomeReset ==
  /\ pc = "returned"
  /\ ret # None
  /\ board' = update_cell(board, Top.next_empty, 0)
  /\ retEntry' = Top.entry
  /\ stack' = Pop
  /\ pc' = AfterReturn(Pop)
  /\ UNCHANGED << validity, ret, input, writes, run, prevIn, prevOut, ld >>

PropagateSome ==
  /\ pc = "returned"
  /\ ret # None
  /\ retEntry' = Top.entry
  /\ stack' = Pop
  /\ pc' = AfterReturn(Pop)
  /\ UNCHANGED << validity, board, ret, input, writes, run, prevIn, prevOut, ld >>

\* solve, lines 195-199: the nested call returned None, next loop index
ResumeLoop ==
  /\ pc = "returned"
  /\ ret = None
  /\ stack' = [stack EXCEPT ![Len(stack)].i = @ + 1]
  /\ pc' = "loop"
  /\ UNCHANGED << validity, board, ret, retEntry, input, writes, run, prevIn, prevOut, ld >>

\* solve, lines 200-201: no digit worked, empty the cell and return None
LoopExhaustedNoReset ==
  /\ pc = "loop"
  /\ NextTrial(Top) = N
  /\ ret' = None
  /\ retEntry' = Top.entry
  /\ stack' = Pop
  /\ pc' = AfterReturn(Pop)
  /\ UNCHANGED << validity, board, writes, input, run, prevIn, prevOut, ld >>

LoopExhausted ==
  /\ pc = "loop"
  /\ NextTrial(Top) = N
  /\ board' = update_cell(board, Top.next_empty, 0)
  /\ writes' = [writes EXCEPT !.reset = TRUE]
  /\ ret' = None
  /\ retEntry' = Top.entry
  /\ stack' = Pop
  /\ pc' = AfterReturn(Pop)
  /\ UNCHANGED << validity, input, run, prevIn, prevOut, ld >>

\* the caller calls solve a second time: on the board it already passed in,
\* on the board solve returned, or on another copy of the same input
SolveAgain ==
  /\ pc = "done"
  /\ run = 1
  /\ \E b \in {board, input} \cup {ret[k] : k \in 1 .. Len(ret)} :
       /\ board' = b
       /\ input' = b
  /\ prevIn' = input
  /\ prevOut' = ret
  /\ run' = run + 1
  /\ writes' = NoWrites
  /\ pc' = "entry"
  /\ UNCHANGED << validity, stack, ret, retEntry, ld >>

\* from_csv, lines 8-14: open the file and start reading it
CallFromCsv ==
  /\ pc = "start"
  /\ \E f \in Files :
       ld' = [opened |-> TRUE, records |-> f, i |-> 0, line_count |-> 0,
              grid |-> ZeroGrid, result |-> "none", constructed |-> FALSE]
  /\ pc' = "load"
  /\ UNCHANGED << validity, board, stack, ret, retEntry, input, writes, run, prevIn, prevOut >>

\* from_csv, lines 9-12: the file cannot be opened, expect panics
CallFromCsvNoFile ==
  /\ pc = "start"
  /\ pc' = "load_panic"
  /\ UNCHANGED << validity, board, stack, ret, retEntry, input, writes, run, prevIn, prevOut, ld >>

\* from_csv, lines 15-33: the next record
ReadRecord ==
  /\ pc = "load"
  /\ ld.i < Len(ld.records)
  /\ \E out \in {read_record(ld.grid, ld.i, ld.records[ld.i + 1])} :
         /\ ld' = [ld EXCEPT !.grid = out.grid,
                             !.i = IF out.kind = "ok" THEN @ + 1 ELSE @,
                             !.line_count = IF out.kind = "ok" THEN @ + 1 ELSE @,
                             !.result = IF out.kind = "err" THEN out.msg ELSE @]
         /\ pc' = CASE out.kind = "ok" -> "load"
                    [] out.kind = "err" -> "loaded"
                    [] out.kind = "panic" -> "load_panic"
  /\ UNCHANGED << validity, board, stack, ret, retEntry, input, writes, run, prevIn, prevOut >>

\* from_csv, lines 34-44: the records are read: check the count, build the
\* Board, check the rules
FinishLoad ==
  /\ pc = "load"
  /\ ld.i = Len(ld.records)
  /\ IF ld.line_count # N
     THEN /\ ld' = [ld EXCEPT !.result = DimsMsg]
          /\ board' = board
     ELSE IF ~ is_valid_board(new(ld.grid))
          THEN /\ ld' = [ld EXCEPT !.result = RulesMsg, !.constructed = TRUE]
               /\ board' = board
          ELSE /\ ld' = [ld EXCEPT !.result = "ok", !.constructed = TRUE]
               /\ board' = new(ld.grid)
  /\ pc' = "loaded"
  /\ UNCHANGED << validity, stack, ret, retEntry, input, writes, run, prevIn, prevOut >>

\* main, lines 16-24 (and test_pass): the board is loaded, solve it
MainSolve ==
  /\ pc = "loaded"
  /\ ld.result = "ok"
  /\ input' = board
  /\ run' = 1
  /\ writes' = NoWrites
  /\ pc' = "entry"
  /\ UNCHANGED << validity, board, stack, ret, retEntry, prevIn, prevOut, ld >>

\* main, lines 16-22: loading failed, print the error and end
MainReportError ==
  /\ pc = "loaded"
  /\ ld.result # "ok"
  /\ pc' = "exit"
  /\ UNCHANGED << validity, board, stack, ret, retEntry, input, writes, run, prevIn, prevOut, ld >>

Next ==
  \/ CallNew
  \/ CallIsValidBoard
  \/ SolveComplete
  \/ SolvePanic
  \/ SolveBranch
  \/ LoopTrial
  \/ PropagateSome
  \/ ResumeLoop
  \/ LoopExhausted
  \/ SolveAgain
  \/ CallFromCsv
  \/ CallFromCsvNoFile
  \/ ReadRecord
  \/ FinishLoad
  \/ MainSolve
  \/ MainReportError

Spec == Init /\ [][Next]_vars

FairSpec == Spec /\ WF_vars(Next)

\* ------------------------------------------------------------------------
\* The rules of sudoku, stated on their own (not through the code's queries)
\* ------------------------------------------------------------------------
Cell(b, c) == b[c[1]][c[2]]

Groups ==
  { {<< r, j >> : j \in Rng} : r \in Rng }
    \cup { {<< i, c >> : i \in Rng} : c \in Rng }
    \cup { {c \in Cells : c[1] \div BoxSize = g[1] /\ c[2] \div BoxSize = g[2]} :
             g \in (0 .. (BoxSize - 1)) \X (0 .. (BoxSize - 1)) }

\* cells c and e are distinct and share a row, a column or a box
IsPeer(c, e) ==
  /\ c # e
  /\ \/ c[1] = e[1]
     \/ c[2] = e[2]
     \/ /\ c[1] \div BoxSize = e[1] \div BoxSize
        /\ c[2] \div BoxSize = e[2] \div BoxSize

\* the digit at row i, column j of b occurs nowhere else in row i, in
\* column j or in the box of the cell
Unique(b, i, j) ==
  \A k \in Rng :
    /\ k # j => b[i][k] # b[i][j]
    /\ k # i => b[k][j] # b[i][j]
    /\ LET r == (i \div BoxSize) * BoxSize + (k \div BoxSize)
           c == (j \div BoxSize) * BoxSize + (k % BoxSize)
       IN  (r # i \/ c # j) => b[r][c] # b[i][j]

\* no digit appears more than once in any row, column or box
RuleValid(b) ==
  \A i \in Rng : \A j \in Rng : b[i][j] = None \/ Unique(b, i, j)

EmptyCells(b) == {c \in Cells : Cell(b, c) = None}

\* every row, column and box is a permutation of 1..9
AllPermutations(b) ==
  \A g \in Groups : {Cell(b, c) : c \in g} = {Some(d) : d \in Digits}

\* s keeps every filled cell of b
KeepsGivens(s, b) == \A c \in Cells : Cell(b, c) # None => Cell(s, c) = Cell(b, c)

Peers(c) == {e \in Cells : IsPeer(c, e)}

\* all legal completions of b
RECURSIVE Completions(_)
Completions(b) ==
  IF EmptyCells(b) = {}
  THEN IF RuleValid(b) THEN {b} ELSE {}
  ELSE LET c == CHOOSE e \in EmptyCells(b) : TRUE
           free == {d \in Digits : \A q \in Peers(c) : Cell(b, q) # Some(d)}
       IN  UNION { Completions([b EXCEPT ![c[1]][c[2]] = Some(d)]) : d \in free }

\* s comes before t reading the digits in row-major cell order
LexLess(s, t) ==
  \E c \in Cells :
    /\ Cell(s, c)[1] < Cell(t, c)[1]
    /\ \A e \in Cells : (e[1] * N + e[2] < c[1] * N + c[2]) => Cell(s, e) = Cell(t, e)

\* solve calls that have been entered and have not returned
Nesting == Len(stack) + (IF pc = "entry" THEN 1 ELSE 0)

Solving == run >= 1 /\ pc \in {"entry", "loop", "returned", "done", "panic"}

\* ------------------------------------------------------------------------
\* Claims
\* ------------------------------------------------------------------------

\* C1: on a board that satisfies is_valid_board and has a legal completion,
\* solve does not panic and returns Some(S), where every row, column and box
\* of S is a permutation of 1..9 and S keeps every cell filled on entry.
C1_SolvesSolvable ==
  (Solving /\ pc \in {"done", "panic"} /\ is_valid_board(input)
     /\ Completions(input) # {})
    => /\ pc = "done"
       /\ ret # None
       /\ AllPermutations(ret[1])
       /\ KeepsGivens(ret[1], input)

\* a board with empty cells was solved after trial placements
C1_Witness ==
  /\ pc = "done"
  /\ is_valid_board(input)
  /\ Cardinality(EmptyCells(input)) >= MaxEmpty
  /\ writes.placed
  /\ ret # None
  /\ AllPermutations(ret[1])

\* C2 (as claimed): on a board that fails is_valid_board, or is rule-valid
\* without a legal completion, solve returns None: it never panics and never
\* returns a board.
C2_UnsolvableReturnsNone ==
  (Solving /\ pc \in {"done", "panic"}
     /\ (~ is_valid_board(input) \/ Completions(input) = {}))
    => (pc = "done" /\ ret = None)

\* C2, the parts that hold: on an unsolvable board solve never returns a
\* board, and on a rule-valid board without completion it returns None.
C2_Support_NeverSome ==
  (Solving /\ pc = "done"
     /\ (~ is_valid_board(input) \/ Completions(input) = {}))
    => ret = None

C2_Support_ValidExhausts ==
  (Solving /\ pc \in {"done", "panic"} /\ is_valid_board(input)
     /\ Completions(input) = {})
    => (pc = "done" /\ ret = None)

\* C3: is_valid_board(B) holds exactly when no digit appears more than once
\* in any row, column or box of B; checked on what is_valid_board returns
\* for the sparse grids, on the board of the grid read so far while a file
\* is loaded, and on the board being solved in every state of the search.
C3_ValidIffNoDuplicate ==
  /\ validity # << >> => (validity[1] <=> RuleValid(board))
  /\ IF pc \in {"load", "loaded", "exit", "load_panic"}
     THEN is_valid_board(new(ld.grid)) <=> RuleValid(new(ld.grid))
     ELSE is_valid_board(board) <=> RuleValid(board)

\* is_valid_board returned false for a board whose only fault is the least
\* the count can see: two equal digits in one box, in different rows and
\* columns, and nothing else on the board
C3_Witness ==
  /\ pc = "asked"
  /\ validity = << FALSE >>
  /\ \E c \in Cells :
       /\ c[1] # Anchor[1] /\ c[2] # Anchor[2]
       /\ c[1] \div BoxSize = Anchor[1] \div BoxSize
       /\ c[2] \div BoxSize = Anchor[2] \div BoxSize
       /\ Cells \ EmptyCells(board) = {Anchor, c}
       /\ Count(get_row(board, c[1]) \o get_column(board, c[2])
                  \o get_subgrid(board, c), Cell(board, c)) = Tolerance + 1

\* C4: on a complete board (rule-valid, no empty cell) solve returns a board
\* equal to the input, leaves the input as it was, and calls update_cell
\* never; solve applied again to the result returns the same board.
C4_CompleteUnchanged ==
  (Solving /\ EmptyCells(input) = {} /\ RuleValid(input))
    => /\ pc \in {"entry", "done"}
       /\ stack = << >>
       /\ board = input
       /\ writes = NoWrites
       /\ pc = "done" => ret = Some(input)
       /\ (pc = "done" /\ run >= 2 /\ prevOut = Some(input)) => ret = prevOut

\* solve ran on a complete board and then again on the board it returned
C4_Witness ==
  /\ pc = "done"
  /\ run >= 2
  /\ RuleValid(prevIn) /\ EmptyCells(prevIn) = {}
  /\ prevOut = Some(input)
  /\ ret = Some(input)
  /\ ld.result = "none"

\* C5: when a solve call (at any depth) returns Some(S), the board passed
\* in is equal to S.
C5_BoardIsSolution ==
  (pc \in {"returned", "done"} /\ ret # None) => board = ret[1]

\* a nested call, two levels down, has returned a solution to its caller
C5_Witness ==
  /\ pc = "returned"
  /\ ret # None
  /\ Len(stack) >= 2
  /\ board # input

\* every record was read and every field is an integer in 0..9
AllFieldsInRange(records) ==
  \A k \in DOMAIN records :
    /\ records[k].ok
    /\ \A j \in DOMAIN records[k].fields : FieldOutcome(records[k].fields[j]) = "ok"

\* the records are not nine records of nine fields
WrongShape(records) ==
  \/ Len(records) # N
  \/ \E k \in DOMAIN records : Len(records[k].fields) # N

LoadEnded == ld.opened /\ pc \in {"loaded", "exit", "load_panic"}

\* C6 (as claimed): for a file whose fields are all integers in 0..9 and
\* whose shape is not 9x9, from_csv returns the wrong-dimensions error,
\* before a Board is constructed and without a panic.
C6_WrongShapeRejected ==
  (LoadEnded /\ AllFieldsInRange(ld.records) /\ WrongShape(ld.records))
    => /\ pc # "load_panic"
       /\ ld.result = DimsMsg
       /\ ~ ld.constructed

\* C6, the part that holds: the same for files of at most nine records.
C6_Support_AtMostNineRecords ==
  (LoadEnded /\ AllFieldsInRange(ld.records) /\ WrongShape(ld.records)
     /\ Len(ld.records) <= N)
    => /\ pc # "load_panic"
       /\ ld.result = DimsMsg
       /\ ~ ld.constructed

\* C7 (as claimed): every solve invocation ends with a solution or with
\* exhaustion, and its nesting never exceeds the number of cells empty on
\* entry plus one: while solve runs the nesting is within the bound, and a
\* state in which the program can take no further step is one in which solve
\* has returned.
C7_ReturnsBounded ==
  Solving =>
    /\ Nesting <= Cardinality(EmptyCells(input)) + 1
    /\ pc = "done" \/ ENABLED Next

\* C7, the parts that hold: the nesting bound, and (under FairSpec) that
\* every invocation ends, by returning or by the panic.
C7_Support_NestingBound ==
  Solving => Nesting <= Cardinality(EmptyCells(input)) + 1

C7_Support_Ends == [](Solving => <>(pc \in {"done", "panic"}))

\* C8: when a solve call (at any depth) returns None, the board is what it
\* was when that call was entered.
C8_NoneRestoresBoard ==
  (pc \in {"returned", "done"} /\ ret = None) => board = retEntry

\* the outermost call made trial placements, emptied its cell and returned
\* None
C8_Witness ==
  /\ pc = "done"
  /\ ret = None
  /\ writes.placed
  /\ writes.reset
  /\ board = input

\* C9: on a board that satisfies is_valid_board on entry, the board is
\* rule-valid at the entry of every nested solve call and the panic is never
\* reached.
C9_StaysValid ==
  (Solving /\ pc \in {"entry", "panic"} /\ is_valid_board(input))
    => /\ pc = "entry"
       /\ is_valid_board(board)
       /\ RuleValid(board)

\* a nested call is entered on a rule-valid board with trial digits placed
C9_Witness ==
  /\ pc = "entry"
  /\ Len(stack) >= 2
  /\ is_valid_board(input)
  /\ RuleValid(board)

\* C10: on a rule-valid board with more than one legal completion, solve
\* returns the completion that is least in row-major lexicographic order;
\* and a second invocation on an equal input returns an equal result.
C10_LeastCompletion ==
  /\ (pc = "done" /\ Solving /\ RuleValid(input)
        /\ Cardinality(Completions(input)) > 1)
       => /\ ret # None
          /\ ret[1] \in Completions(input)
          /\ \A t \in Completions(input) : t = ret[1] \/ LexLess(ret[1], t)
  /\ (pc = "done" /\ run >= 2 /\ prevIn = input) => ret = prevOut

\* solve ran twice on a board with more than one completion
C10_Witness ==
  /\ pc = "done"
  /\ run >= 2
  /\ prevIn = input
  /\ RuleValid(input)
  /\ Cardinality(Completions(input)) > 1
  /\ ret # None

====
